---- MODULE Spec2Model ----
(***************************************************************************)
(* Timetable-Scheduler: the slot-grid construction and the greedy          *)
(* first-fit placement engine of src/main.py (run_scheduler), as a state   *)
(* machine.  Strings that the code parses or formats ("HH:MM" times,       *)
(* "DayN" keys, names) are sequences of one-character strings, so that     *)
(* parsing, formatting and trimming are computed and not assumed.          *)
(***************************************************************************)
EXTENDS Integers, Sequences, FiniteSets, TLC

\* payload .. summary: the argument and the locals of run_scheduler; pc: its
\* position; round: the counter of the session loop; placements: the log of
\* the blocks booked (history); run, first_result: which of two consecutive
\* calls is running and what the first one returned.
VARIABLES payload, pc, days, time_slots, max_clients_per_slot, timetable,
          student_colors, groups, solo_clients, unit, scheduled_count,
          used_days, used_day_indices, per_day_counts, reason, conflicts,
          summary, placements, run, first_result, round

vars == <<payload, pc, days, time_slots, max_clients_per_slot, timetable,
          student_colors, groups, solo_clients, unit, scheduled_count,
          used_days, used_day_indices, per_day_counts, reason, conflicts,
          summary, placements, run, first_result, round>>

\* ------------------------------------------------------------- bounds
\* Largest cycle_length a payload of the scheduling specification carries.
MaxCycle == 3
\* Largest max_clients_per_slot a payload of the scheduling specification carries.
MaxCap == 2
\* Largest sessions_needed a client of the scheduling specification carries.
MaxSessions == 2

\* ---------------------------------------------------- program constants
TIME_SLOT_MINUTES == 10
PaletteSize == 8
MinCycle == 1
CycleClamp == 20
DefaultCycle == 6
MinCap == 1
CapClamp == 50
DefaultCap == 1

\* ------------------------------------------------------------ strings
Range(s) == {s[i] : i \in DOMAIN s}

DigitChars == <<"0", "1", "2", "3", "4", "5", "6", "7", "8", "9">>

IsDigit(c) == \E i \in 1..10 : DigitChars[i] = c

DigitVal(c) == (CHOOSE i \in 1..10 : DigitChars[i] = c) - 1

\* int(s) raises ValueError unless s is a non-empty run of digits (the inputs
\* carry no sign, blank or underscore).
IntOk(s) == Len(s) > 0 /\ \A i \in 1..Len(s) : IsDigit(s[i])

RECURSIVE IntVal(_)
IntVal(s) ==
  IF s = <<>> THEN 0
  ELSE IntVal(SubSeq(s, 1, Len(s) - 1)) * 10 + DigitVal(s[Len(s)])

\* str(n) for n >= 0
RECURSIVE Dec(_)
Dec(n) ==
  IF n < 10 THEN <<DigitChars[n + 1]>>
  ELSE Dec(n \div 10) \o <<DigitChars[(n % 10) + 1]>>

\* f"{n:02d}" for n >= 0
Pad2(n) == IF n < 10 THEN <<"0">> \o Dec(n) ELSE Dec(n)

ColonCount(t) == Cardinality({i \in 1..Len(t) : t[i] = ":"})

FirstColon(t) == CHOOSE i \in 1..Len(t) : t[i] = ":" /\ \A j \in 1..(i - 1) : t[j] # ":"

\* ------------------------------------------------------- time helpers
parse_time_str(t) ==
  IF ColonCount(t) # 1 THEN <<8, 0>>
  ELSE LET k == FirstColon(t)
           hs == SubSeq(t, 1, k - 1)
           ms == SubSeq(t, k + 1, Len(t))
       IN IF IntOk(hs) /\ IntOk(ms) THEN <<IntVal(hs), IntVal(ms)>> ELSE <<8, 0>>

time_to_minutes(h, m) == h * 60 + m

minutes_to_str(total_minutes) ==
  Pad2(total_minutes \div 60) \o <<":">> \o Pad2(total_minutes % 60)

ParsedMinutes(t) == time_to_minutes(parse_time_str(t)[1], parse_time_str(t)[2])

\* the (sb, eb) pairs kept by the loop over the blackouts
RECURSIVE blackout_ranges(_)
blackout_ranges(blackouts) ==
  IF blackouts = <<>> THEN <<>>
  ELSE LET b == Head(blackouts)
           rest == blackout_ranges(Tail(blackouts))
       IN IF b.start = <<>> \/ b.end = <<>> THEN rest
          ELSE LET sb == ParsedMinutes(b.start)
                   eb == ParsedMinutes(b.end)
               IN IF eb > sb THEN <<(<<sb, eb>>)>> \o rest ELSE rest

in_blackout_le(ranges, minute_val) ==
  \E i \in DOMAIN ranges : ranges[i][1] <= minute_val /\ minute_val <= ranges[i][2]

in_blackout(ranges, minute_val) ==
  \E i \in DOMAIN ranges : ranges[i][1] <= minute_val /\ minute_val < ranges[i][2]

\* the while loop of build_time_slots
RECURSIVE SlotLoop(_, _, _)
SlotLoop(current, end_minutes, ranges) ==
  IF current >= end_minutes THEN <<>>
  ELSE (IF in_blackout(ranges, current) THEN <<>> ELSE <<minutes_to_str(current)>>)
       \o SlotLoop(current + TIME_SLOT_MINUTES, end_minutes, ranges)

WindowStart(workday_start, workday_end) ==
  IF ParsedMinutes(workday_end) <= ParsedMinutes(workday_start)
  THEN time_to_minutes(8, 0) ELSE ParsedMinutes(workday_start)

WindowEnd(workday_start, workday_end) ==
  IF ParsedMinutes(workday_end) <= ParsedMinutes(workday_start)
  THEN time_to_minutes(17, 0) ELSE ParsedMinutes(workday_end)

build_time_slots(workday_start, workday_end, blackouts) ==
  SlotLoop(WindowStart(workday_start, workday_end),
           WindowEnd(workday_start, workday_end),
           blackout_ranges(blackouts))

\* ---------------------------------------------------- payload fields
\* An optional integer field is <<>> when absent and <<v>> when present.
\* int(payload.get(key, default) or default)
IntOrDefault(raw, default) ==
  IF raw = <<>> THEN default ELSE IF raw[1] = 0 THEN default ELSE raw[1]

\* payload.get(key, default) or default, for a string field ("" when absent)
StrOrDefault(s, default) == IF s = <<>> THEN default ELSE s

Clamp(v, lo, hi) == IF v < lo THEN lo ELSE IF v > hi THEN hi ELSE v

cycle_length_of(p) == Clamp(IntOrDefault(p.cycle_length, DefaultCycle), MinCycle, CycleClamp)

capacity_of(p) == Clamp(IntOrDefault(p.max_clients_per_slot, DefaultCap), MinCap, CapClamp)

DayName(d) == <<"D", "a", "y">> \o Dec(d)

days_of(cycle_length) == [d \in 1..cycle_length |-> DayName(d)]

Default0800 == <<"0", "8", ":", "0", "0">>
Default1700 == <<"1", "7", ":", "0", "0">>

time_slots_of(p) ==
  build_time_slots(StrOrDefault(p.workday_start, Default0800),
                   StrOrDefault(p.workday_end, Default1700),
                   p.blackouts)

empty_timetable_kept(ds, slots) ==
  IF DOMAIN timetable = Range(ds) /\ timetable # <<>>
  THEN timetable
  ELSE [day \in Range(ds) |-> [slot \in Range(slots) |-> <<>>]]

\* {day: {slot: [] for slot in time_slots} for day in days}
empty_timetable(ds, slots) == [day \in Range(ds) |-> [slot \in Range(slots) |-> <<>>]]

\* str.strip(): leading and trailing blanks removed
RECURSIVE StripLeft(_)
StripLeft(s) == IF s # <<>> /\ Head(s) = " " THEN StripLeft(Tail(s)) ELSE s

RECURSIVE StripRight(_)
StripRight(s) ==
  IF s # <<>> /\ s[Len(s)] = " " THEN StripRight(SubSeq(s, 1, Len(s) - 1)) ELSE s

Strip(s) == StripRight(StripLeft(s))

\* (client.get("name") or "").strip()
NameOf(client) == Strip(client.name)

\* student_colors: the palette position of the last client carrying the name
student_colors_of(clients) ==
  [n \in {NameOf(clients[i]) : i \in DOMAIN clients} \ {<<>>} |->
     LET last == CHOOSE i \in DOMAIN clients :
                   /\ NameOf(clients[i]) = n
                   /\ \A j \in DOMAIN clients : NameOf(clients[j]) = n => j <= i
     IN ((last - 1) % PaletteSize) + 1]

\* groups.setdefault(group_id, []).append(client), in input order
RECURSIVE GroupFold(_, _)
GroupFold(clients, acc) ==
  IF clients = <<>> THEN acc
  ELSE LET c == Head(clients)
       IN IF NameOf(c) = <<>> \/ c.group_id = "" THEN GroupFold(Tail(clients), acc)
          ELSE IF \E i \in DOMAIN acc : acc[i].group_id = c.group_id
          THEN GroupFold(Tail(clients),
                 [i \in DOMAIN acc |->
                    IF acc[i].group_id = c.group_id
                    THEN [acc[i] EXCEPT !.members = Append(@, c)] ELSE acc[i]])
          ELSE GroupFold(Tail(clients),
                 Append(acc, [group_id |-> c.group_id, members |-> <<c>>]))

groups_of_reversed(clients) ==
  LET gs == GroupFold(clients, <<>>)
  IN [i \in DOMAIN gs |-> gs[Len(gs) + 1 - i]]

groups_of(clients) == GroupFold(clients, <<>>)

IsSolo(c) == NameOf(c) # <<>> /\ c.group_id = ""

solo_clients_of(clients) == SelectSeq(clients, IsSolo)

\* ------------------------------------------------------- availability
StartsWithDay(k) == Len(k) >= 3 /\ SubSeq(k, 1, 3) = <<"D", "a", "y">>

NormDay(k) == IF StartsWithDay(k) THEN k ELSE <<"D", "a", "y">> \o k

\* day -> set of slot strings; the entries of one normalized day are merged
normalize_availability(client) ==
  LET av == client.availability
  IN [day \in {NormDay(av[i].key) : i \in DOMAIN av} |->
        UNION {Range(av[i].times) : i \in {j \in DOMAIN av : NormDay(av[j].key) = day}}]

\* avail_by_day.get(day, set())
AvailGet(avail, day) == IF day \in DOMAIN avail THEN avail[day] ELSE {}

IntersectFirst(avails, day) == AvailGet(avails[1], day)

RECURSIVE IntersectAll(_, _)
IntersectAll(avails, day) ==
  IF Len(avails) = 1 THEN AvailGet(avails[1], day)
  ELSE AvailGet(avails[1], day) \cap IntersectAll(Tail(avails), day)

\* combined_avail_by_day: only the days whose intersection is not empty
combined_avail_by_day(members) ==
  LET avails == [i \in DOMAIN members |-> normalize_availability(members[i])]
  IN [day \in {d \in Range(days) : IntersectAll(avails, d) # {}} |->
        IntersectAll(avails, day)]

\* ------------------------------------------------------ unit parameters
sessions_needed_of(client) == client.sessions_needed

session_length_of(client) ==
  LET v == IF client.session_length_minutes = 0 THEN TIME_SLOT_MINUTES
           ELSE client.session_length_minutes
  IN IF v <= 0 THEN TIME_SLOT_MINUTES ELSE v

CeilDiv(a, b) == (a + b - 1) \div b

slots_per_session_of(client) ==
  LET n == CeilDiv(session_length_of(client), TIME_SLOT_MINUTES)
  IN IF n < 1 THEN 1 ELSE n

\* 0 stands for None: no daily cap
max_per_day_of(client) == IF client.max_per_day < 1 THEN 0 ELSE client.max_per_day

\* ----------------------------------------------------------- placement
NoBlockMsg == "Not enough contiguous availability to fit full sessions."
BlockedMsg == "Available blocks exist but are filled or blocked by spacing/capacity rules."

Abs(x) == IF x < 0 THEN -x ELSE x

\* time_slots[start_idx:start_idx + slots_per_session], start_idx counted from 0
Block(start_idx, slots_per_session) ==
  SubSeq(time_slots, start_idx + 1, start_idx + slots_per_session)

\* range(len(time_slots) - slots_per_session + 1)
WindowStarts(slots_per_session) == 0..(Len(time_slots) - slots_per_session)

SlotFullOne(day, slot, size) == Len(timetable[day][slot]) + 1 > max_clients_per_slot

\* the capacity test of one slot: len(timetable[day][slot]) + size > max_clients_per_slot
SlotFull(day, slot, size) == Len(timetable[day][slot]) + size > max_clients_per_slot

WindowOkClock(day, start_idx, day_avail, slots_per_session, size) ==
  /\ \A slot \in Range(SubSeq(time_slots, start_idx + 1, start_idx + slots_per_session)) :
       slot \in day_avail /\ Len(timetable[day][slot]) + size <= max_clients_per_slot
  /\ \A k \in 1..(slots_per_session - 1) :
       ParsedMinutes(time_slots[start_idx + k + 1])
         = ParsedMinutes(time_slots[start_idx + k]) + TIME_SLOT_MINUTES

\* the inner loop over the block: every slot available and with room
WindowOk(day, start_idx, day_avail, slots_per_session, size) ==
  \A slot \in Range(Block(start_idx, slots_per_session)) :
    slot \in day_avail /\ ~SlotFull(day, slot, size)

SpacingSkipsSameDay(day_index, spacing_rule) ==
  \/ spacing_rule = "once_per_day" /\ days[day_index + 1] \in used_days
  \/ /\ spacing_rule = "no_consecutive_days"
     /\ \E i \in DOMAIN used_day_indices : Abs(day_index - used_day_indices[i]) < 1

SpacingSkipsRelaxed(day_index, spacing_rule) ==
  /\ reason = ""
  /\ \/ spacing_rule = "once_per_day" /\ days[day_index + 1] \in used_days
     \/ /\ spacing_rule = "no_consecutive_days"
        /\ \E i \in DOMAIN used_day_indices : Abs(day_index - used_day_indices[i]) <= 1

\* the spacing gates; day_index counted from 0
SpacingSkips(day_index, spacing_rule) ==
  \/ spacing_rule = "once_per_day" /\ days[day_index + 1] \in used_days
  \/ /\ spacing_rule = "no_consecutive_days"
     /\ \E i \in DOMAIN used_day_indices : Abs(day_index - used_day_indices[i]) <= 1

CapSkipsLate(day_index, max_per_day) ==
  max_per_day # 0 /\ per_day_counts[days[day_index + 1]] > max_per_day

\* the solo-only daily cap gate (max_per_day = 0: no cap)
CapSkips(day_index, max_per_day) ==
  max_per_day # 0 /\ per_day_counts[days[day_index + 1]] >= max_per_day

\* the `continue`s at the head of the loop over the days
DaySkipped(day_index, spacing_rule, max_per_day, avail) ==
  \/ SpacingSkips(day_index, spacing_rule)
  \/ CapSkips(day_index, max_per_day)
  \/ AvailGet(avail, days[day_index + 1]) = {}

ScanWindowsLast(day, start_idx, day_avail, slots_per_session, size) ==
  LET ok == {w \in start_idx..(Len(time_slots) - slots_per_session) :
               \A slot \in Range(SubSeq(time_slots, w + 1, w + slots_per_session)) :
                 /\ slot \in day_avail
                 /\ Len(timetable[day][slot]) + size <= max_clients_per_slot}
  IN IF ok = {} THEN -1 ELSE CHOOSE w \in ok : \A v \in ok : v <= w

\* for start_idx in range(...): the first window that is ok, or -1
RECURSIVE ScanWindows(_, _, _, _, _)
ScanWindows(day, start_idx, day_avail, slots_per_session, size) ==
  IF start_idx > Len(time_slots) - slots_per_session THEN -1
  ELSE IF WindowOk(day, start_idx, day_avail, slots_per_session, size) THEN start_idx
  ELSE ScanWindows(day, start_idx + 1, day_avail, slots_per_session, size)

\* for day_index, day in enumerate(days): the first <<day_index, start_idx>>
\* booked by one iteration, or <<>> when the iteration places nothing
RECURSIVE ScanDays(_, _, _, _, _, _)
ScanDays(day_index, spacing_rule, max_per_day, avail, slots_per_session, size) ==
  IF day_index >= Len(days) THEN <<>>
  ELSE IF DaySkipped(day_index, spacing_rule, max_per_day, avail)
  THEN ScanDays(day_index + 1, spacing_rule, max_per_day, avail, slots_per_session, size)
  ELSE LET day == days[day_index + 1]
           w == ScanWindows(day, 0, AvailGet(avail, day), slots_per_session, size)
       IN IF w >= 0 THEN <<day_index, w>>
          ELSE ScanDays(day_index + 1, spacing_rule, max_per_day, avail,
                        slots_per_session, size)

FirstFit(spacing_rule, max_per_day, avail, slots_per_session, size) ==
  ScanDays(0, spacing_rule, max_per_day, avail, slots_per_session, size)

AppendNamesFront(cell, names) ==
  SelectSeq(names, LAMBDA nm : nm # <<>> /\ nm \notin Range(cell)) \o cell

\* if nm and nm not in cell: cell.append(nm), for each name in turn
RECURSIVE AppendNames(_, _)
AppendNames(cell, names) ==
  IF names = <<>> THEN cell
  ELSE LET nm == Head(names)
       IN IF nm # <<>> /\ nm \notin Range(cell)
          THEN AppendNames(Append(cell, nm), Tail(names))
          ELSE AppendNames(cell, Tail(names))

BookedOverwrite(day, start_idx, slots_per_session, names) ==
  [timetable EXCEPT ![day] =
     [slot \in DOMAIN timetable[day] |->
        IF slot \in Range(SubSeq(time_slots, start_idx + 1, start_idx + slots_per_session))
        THEN names
        ELSE timetable[day][slot]]]

\* the booking loops: every slot of the block, on the chosen day
Booked(day, start_idx, slots_per_session, names) ==
  [timetable EXCEPT ![day] =
     [slot \in DOMAIN timetable[day] |->
        IF slot \in Range(Block(start_idx, slots_per_session))
        THEN AppendNames(timetable[day][slot], names)
        ELSE timetable[day][slot]]]

analyze_failure_reason_free(avail, slots_per_session) ==
  LET has_any_block ==
        \E i \in DOMAIN days :
          \E start_idx \in 0..(Len(time_slots) - slots_per_session) :
            \A slot \in Range(SubSeq(time_slots, start_idx + 1, start_idx + slots_per_session)) :
              /\ slot \in AvailGet(avail, days[i])
              /\ Len(timetable[days[i]][slot]) < max_clients_per_slot
  IN IF ~has_any_block THEN NoBlockMsg ELSE BlockedMsg

analyze_failure_reason(avail, slots_per_session) ==
  LET has_any_block ==
        \E i \in DOMAIN days :
          /\ AvailGet(avail, days[i]) # {}
          /\ \E start_idx \in WindowStarts(slots_per_session) :
               Range(Block(start_idx, slots_per_session)) \subseteq AvailGet(avail, days[i])
  IN IF ~has_any_block THEN NoBlockMsg ELSE BlockedMsg

\* ---------------------------------------------------- the current unit
Members == groups[unit].members

Template == Members[1]

MemberNamesFirst(members) == <<NameOf(members[1])>>

MemberNames(members) == [i \in DOMAIN members |-> NameOf(members[i])]

\* member_names: the non-empty names, in member order
RECURSIVE NonEmpty(_)
NonEmpty(names) ==
  IF names = <<>> THEN <<>>
  ELSE (IF Head(names) # <<>> THEN <<Head(names)>> ELSE <<>>) \o NonEmpty(Tail(names))

Solo == solo_clients[unit]

GroupFitAsOne ==
  FirstFit(Template.spacing_rule, 0, combined_avail_by_day(Members),
           slots_per_session_of(Template), 1)

\* one iteration of the group loop: group_size = len(members), no daily cap
GroupFit ==
  FirstFit(Template.spacing_rule, 0, combined_avail_by_day(Members),
           slots_per_session_of(Template), Len(Members))

SoloFit ==
  FirstFit(Solo.spacing_rule, max_per_day_of(Solo), normalize_availability(Solo),
           slots_per_session_of(Solo), 1)

AfterGroupAbort(i) ==
  IF reason # "" THEN "done"
  ELSE IF i < Len(groups) THEN "group_loop"
  ELSE IF Len(solo_clients) > 0 THEN "solo_loop" ELSE "done"

\* where the run goes after group i / after solo i
AfterGroup(i) ==
  IF i < Len(groups) THEN "group_loop"
  ELSE IF Len(solo_clients) > 0 THEN "solo_loop" ELSE "done"

AfterSolo(i) == IF i < Len(solo_clients) THEN "solo_loop" ELSE "done"

UnitAfterGroup(i) == IF i < Len(groups) THEN i + 1 ELSE 1

UnitAfterSolo(i) == IF i < Len(solo_clients) THEN i + 1 ELSE i

\* scheduled_count = 0, used_days = set(), used_day_indices = [], per_day_counts, reason = "";
\* round: the iterations of `for _ in range(sessions_needed)` begun for the unit
FreshUnit(ds) ==
  /\ round' = 0
  /\ scheduled_count' = 0
  /\ used_days' = {}
  /\ used_day_indices' = <<>>
  /\ per_day_counts' = [day \in Range(ds) |-> 0]
  /\ reason' = ""

ShortfallOrEqual(scheduled, needed) == scheduled <= needed

\* if scheduled_count < sessions_needed: the unit fell short
Shortfall(scheduled, needed) == scheduled < needed

\* -------------------------------------------------------------- actions
\* run_scheduler up to the grouping: parameters, days, slots, grid, colours, units
Setup ==
  /\ pc = "start"
  /\ days' = days_of(cycle_length_of(payload))
  /\ time_slots' = time_slots_of(payload)
  /\ max_clients_per_slot' = capacity_of(payload)
  /\ timetable' = empty_timetable(days', time_slots')
  /\ student_colors' = student_colors_of(payload.clients)
  /\ groups' = groups_of(payload.clients)
  /\ solo_clients' = solo_clients_of(payload.clients)
  /\ unit' = 1
  /\ pc' = IF Len(groups') > 0 THEN "group_loop"
           ELSE IF Len(solo_clients') > 0 THEN "solo_loop" ELSE "done"
  /\ FreshUnit(days')
  /\ conflicts' = <<>>
  /\ summary' = <<>>
  /\ placements' = <<>>
  /\ UNCHANGED <<payload, run, first_result>>

\* a group whose template needs no session: `continue`, no summary record
GroupSkip ==
  /\ pc = "group_loop"
  /\ sessions_needed_of(Template) <= 0
  /\ pc' = AfterGroup(unit)
  /\ unit' = UnitAfterGroup(unit)
  /\ FreshUnit(days)
  /\ UNCHANGED <<payload, run, first_result, days, time_slots, max_clients_per_slot, timetable,
                 student_colors, groups, solo_clients, conflicts, summary, placements>>

\* one iteration of the group's session loop that places a block
GroupPlace ==
  /\ pc = "group_loop"
  /\ sessions_needed_of(Template) > 0
  /\ GroupFit # <<>>
  /\ LET fit == GroupFit
         day == days[fit[1] + 1]
         sps == slots_per_session_of(Template)
     IN /\ timetable' = Booked(day, fit[2], sps, MemberNames(Members))
        /\ used_days' = used_days \cup {day}
        /\ used_day_indices' = Append(used_day_indices, fit[1])
        /\ placements' = Append(placements,
             [kind |-> "group", unit |-> unit, day_index |-> fit[1],
              start_idx |-> fit[2], slots_per_session |-> sps])
  /\ scheduled_count' = scheduled_count + 1
  /\ round' = round + 1
  /\ pc' = IF round' < sessions_needed_of(Template)
           THEN "group_loop" ELSE "group_end"
  /\ UNCHANGED <<payload, run, first_result, days, time_slots, max_clients_per_slot, student_colors,
                 groups, solo_clients, unit, per_day_counts, reason, conflicts,
                 summary>>

\* one iteration of the group's session loop that places nothing: diagnose, break
GroupFail ==
  /\ pc = "group_loop"
  /\ sessions_needed_of(Template) > 0
  /\ GroupFit = <<>>
  /\ reason' = analyze_failure_reason(combined_avail_by_day(Members),
                                      slots_per_session_of(Template))
  /\ round' = round + 1
  /\ pc' = "group_end"
  /\ UNCHANGED <<payload, run, first_result, days, time_slots, max_clients_per_slot, timetable,
                 student_colors, groups, solo_clients, unit, scheduled_count,
                 used_days, used_day_indices, per_day_counts, conflicts, summary,
                 placements>>

\* after the session loop: the conflict line and the members' summary records
GroupFinish ==
  /\ pc = "group_end"
  /\ LET needed == sessions_needed_of(Template)
         names == NonEmpty(MemberNames(Members))
         rec == [needed |-> needed, scheduled |-> scheduled_count,
                 session_length |-> session_length_of(Template),
                 reason |-> IF Shortfall(scheduled_count, needed) THEN reason ELSE ""]
     IN /\ conflicts' =
             IF Shortfall(scheduled_count, needed)
             THEN Append(conflicts,
                    [kind |-> "group", unit |-> unit, group_id |-> groups[unit].group_id,
                     names |-> names, needed |-> needed,
                     scheduled |-> scheduled_count, reason |-> reason])
             ELSE conflicts
        /\ summary' = [n \in DOMAIN summary \cup Range(names) |->
                         IF n \in Range(names) THEN rec ELSE summary[n]]
  /\ pc' = AfterGroup(unit)
  /\ unit' = UnitAfterGroup(unit)
  /\ FreshUnit(days)
  /\ UNCHANGED <<payload, run, first_result, days, time_slots, max_clients_per_slot, timetable,
                 student_colors, groups, solo_clients, placements>>

\* a solo client that needs no session: `continue`, no summary record
SoloSkip ==
  /\ pc = "solo_loop"
  /\ sessions_needed_of(Solo) <= 0
  /\ pc' = AfterSolo(unit)
  /\ unit' = UnitAfterSolo(unit)
  /\ FreshUnit(days)
  /\ UNCHANGED <<payload, run, first_result, days, time_slots, max_clients_per_slot, timetable,
                 student_colors, groups, solo_clients, conflicts, summary, placements>>

\* one iteration of the solo client's session loop that places a block
SoloPlace ==
  /\ pc = "solo_loop"
  /\ sessions_needed_of(Solo) > 0
  /\ SoloFit # <<>>
  /\ LET fit == SoloFit
         day == days[fit[1] + 1]
         sps == slots_per_session_of(Solo)
     IN /\ timetable' = Booked(day, fit[2], sps, <<NameOf(Solo)>>)
        /\ used_days' = used_days \cup {day}
        /\ used_day_indices' = Append(used_day_indices, fit[1])
        /\ per_day_counts' = [per_day_counts EXCEPT ![day] = @ + 1]
        /\ placements' = Append(placements,
             [kind |-> "solo", unit |-> unit, day_index |-> fit[1],
              start_idx |-> fit[2], slots_per_session |-> sps])
  /\ scheduled_count' = scheduled_count + 1
  /\ round' = round + 1
  /\ pc' = IF round' < sessions_needed_of(Solo)
           THEN "solo_loop" ELSE "solo_end"
  /\ UNCHANGED <<payload, run, first_result, days, time_slots, max_clients_per_slot, student_colors,
                 groups, solo_clients, unit, reason, conflicts, summary>>

\* one iteration of the solo client's session loop that places nothing
SoloFail ==
  /\ pc = "solo_loop"
  /\ sessions_needed_of(Solo) > 0
  /\ SoloFit = <<>>
  /\ reason' = analyze_failure_reason(normalize_availability(Solo),
                                      slots_per_session_of(Solo))
  /\ round' = round + 1
  /\ pc' = "solo_end"
  /\ UNCHANGED <<payload, run, first_result, days, time_slots, max_clients_per_slot, timetable,
                 student_colors, groups, solo_clients, unit, scheduled_count,
                 used_days, used_day_indices, per_day_counts, conflicts, summary,
                 placements>>

\* after the session loop: the conflict line and the client's summary record
SoloFinish ==
  /\ pc = "solo_end"
  /\ LET needed == sessions_needed_of(Solo)
         name == NameOf(Solo)
         rec == [needed |-> needed, scheduled |-> scheduled_count,
                 session_length |-> session_length_of(Solo),
                 reason |-> IF Shortfall(scheduled_count, needed) THEN reason ELSE ""]
     IN /\ conflicts' =
             IF Shortfall(scheduled_count, needed)
             THEN Append(conflicts,
                    [kind |-> "solo", unit |-> unit, group_id |-> "",
                     names |-> <<name>>, needed |-> needed,
                     scheduled |-> scheduled_count, reason |-> reason])
             ELSE conflicts
        /\ summary' = [n \in DOMAIN summary \cup {name} |->
                         IF n = name THEN rec ELSE summary[n]]
  /\ pc' = AfterSolo(unit)
  /\ unit' = UnitAfterSolo(unit)
  /\ FreshUnit(days)
  /\ UNCHANGED <<payload, run, first_result, days, time_slots, max_clients_per_slot, timetable,
                 student_colors, groups, solo_clients, placements>>

Next ==
  \/ Setup
  \/ GroupSkip
  \/ GroupPlace
  \/ GroupFail
  \/ GroupFinish
  \/ SoloSkip
  \/ SoloPlace
  \/ SoloFail
  \/ SoloFinish

\* the dictionary run_scheduler returns
Result ==
  [days |-> days, time_slots |-> time_slots, timetable |-> timetable,
   conflicts |-> conflicts, summary |-> summary, student_colors |-> student_colors]

\* a second request with the same payload: run_scheduler is entered again;
\* what its locals held in the first call is still in memory until the call
\* assigns them
Rerun ==
  /\ pc = "done"
  /\ run = 1
  /\ first_result' = Result
  /\ run' = 2
  /\ pc' = "start"
  /\ UNCHANGED <<payload, days, time_slots, max_clients_per_slot, timetable,
                 student_colors, groups, solo_clients, unit, scheduled_count,
                 used_days, used_day_indices, per_day_counts, reason, conflicts,
                 summary, placements, round>>

\* the state on entry to run_scheduler, for a given payload
Entry(p) ==
  /\ payload = p
  /\ pc = "start"
  /\ days = <<>>
  /\ time_slots = <<>>
  /\ max_clients_per_slot = 0
  /\ timetable = <<>>
  /\ student_colors = <<>>
  /\ groups = <<>>
  /\ solo_clients = <<>>
  /\ unit = 1
  /\ scheduled_count = 0
  /\ used_days = {}
  /\ used_day_indices = <<>>
  /\ per_day_counts = <<>>
  /\ reason = ""
  /\ conflicts = <<>>
  /\ summary = <<>>
  /\ placements = <<>>
  /\ run = 1
  /\ first_result = <<>>
  /\ round = 0

\* ------------------------------------------------------ input payloads
T0800 == <<"0", "8", ":", "0", "0">>
T0810 == <<"0", "8", ":", "1", "0">>
T0820 == <<"0", "8", ":", "2", "0">>
T0830 == <<"0", "8", ":", "3", "0">>

\* availability maps, as lists of (day key, slot list) entries
AvEveryDay(times) == [d \in 1..MaxCycle |-> [key |-> DayName(d), times |-> times]]

\* every slot of every day
AvAll == AvEveryDay(<<T0800, T0810, T0820>>)

\* the first and the third slot of every day
AvGap == AvEveryDay(<<T0800, T0820>>)

\* 08:00 on the first day only, under a bare day key
AvFirst == <<[key |-> <<"1">>, times |-> <<T0800>>]>>

\* the first day spelled under both keys, and the third day
AvMerged ==
  <<[key |-> <<"1">>, times |-> <<T0800>>],
    [key |-> DayName(1), times |-> <<T0810, T0800>>],
    [key |-> <<"3">>, times |-> <<T0810, T0820>>]>>

\* the second day, and a key that names no day of the cycle
AvSecond ==
  <<[key |-> DayName(2), times |-> <<T0810, T0820>>],
    [key |-> <<"D", "a", "y", "0", "1">>, times |-> <<T0800>>]>>

Patterns ==
  { [spacing_rule |-> "none", max_per_day |-> 0, availability |-> AvAll],
    [spacing_rule |-> "once_per_day", max_per_day |-> 0, availability |-> AvAll],
    [spacing_rule |-> "no_consecutive_days", max_per_day |-> 0, availability |-> AvAll],
    [spacing_rule |-> "none", max_per_day |-> 1, availability |-> AvAll],
    [spacing_rule |-> "none", max_per_day |-> 0, availability |-> AvFirst],
    [spacing_rule |-> "none", max_per_day |-> 0, availability |-> AvGap],
    [spacing_rule |-> "once_per_day", max_per_day |-> 0, availability |-> AvMerged],
    [spacing_rule |-> "no_consecutive_days", max_per_day |-> 0, availability |-> AvSecond] }

Requirement(n, len, pat) ==
  [sessions_needed |-> n, session_length_minutes |-> len,
   spacing_rule |-> pat.spacing_rule, max_per_day |-> pat.max_per_day,
   availability |-> pat.availability]

\* what a solo client or the first member of a group may ask for
Requirements ==
  { Requirement(0, 0, [spacing_rule |-> "none", max_per_day |-> 0, availability |-> AvAll]) }
  \cup { Requirement(n, len, pat) : n \in 1..MaxSessions, len \in {10, 15}, pat \in Patterns }

\* what the other full entity of a payload may ask for
Contenders ==
  { Requirement(n, ask.len, ask.pat) :
      n \in 1..MaxSessions,
      ask \in { [len |-> 15,
                 pat |-> [spacing_rule |-> "none", max_per_day |-> 0,
                          availability |-> AvAll]],
                [len |-> 10,
                 pat |-> [spacing_rule |-> "none", max_per_day |-> 1,
                          availability |-> AvFirst]],
                [len |-> 10,
                 pat |-> [spacing_rule |-> "once_per_day", max_per_day |-> 0,
                          availability |-> AvMerged]] } }

\* a later member of a group: only its availability is read
Follower(av) ==
  Requirement(0, 0, [spacing_rule |-> "once_per_day", max_per_day |-> 1, availability |-> av])

Followers == {Follower(AvAll), Follower(AvMerged)}

\* a client that repeats the name of another one
Repeats ==
  { Requirement(n, 10, [spacing_rule |-> "none", max_per_day |-> 0, availability |-> AvAll]) :
      n \in 0..MaxSessions }

\* a client that carries a daily cap of one session
Capped ==
  { Requirement(n, 10, [spacing_rule |-> "none", max_per_day |-> 1, availability |-> AvAll]) :
      n \in 1..MaxSessions }

Dropped ==
  { Requirement(1, 10, [spacing_rule |-> "none", max_per_day |-> 0, availability |-> AvAll]) }

MakeClient(name, group_id, r) ==
  [name |-> name, group_id |-> group_id,
   sessions_needed |-> r.sessions_needed,
   session_length_minutes |-> r.session_length_minutes,
   spacing_rule |-> r.spacing_rule,
   max_per_day |-> r.max_per_day,
   availability |-> r.availability]

Who(name, group_id, menu) == [name |-> name, group_id |-> group_id, menu |-> menu]

\* who is in the payload, in input order, and what each may ask for
Rosters ==
  { <<Who(<<"a">>, "", Requirements)>>,
    <<Who(<<"a">>, "", Requirements), Who(<<"b">>, "", Contenders)>>,
    <<Who(<<"a">>, "G1", Requirements), Who(<<"b", " ">>, "G1", Followers)>>,
    <<Who(<<"a">>, "", Contenders), Who(<<"b">>, "G1", Requirements),
      Who(<<"c">>, "G1", {Follower(AvAll)})>>,
    <<Who(<<"a">>, "G2", Requirements), Who(<<" ">>, "G2", Dropped),
      Who(<<"c">>, "G1", Repeats)>>,
    <<Who(<<"a">>, "", Requirements), Who(<<" ", "a">>, "", Repeats)>>,
    <<Who(<<"a">>, "G1", Requirements), Who(<<"a">>, "G1", {Follower(AvAll)})>>,
    <<Who(<<"a">>, "G1", Requirements), Who(<<"b">>, "G1", {Follower(AvAll)}),
      Who(<<"b">>, "", Repeats)>>,
    <<Who(<<"a">>, "", Capped), Who(<<"b">>, "G1", Capped)>> }

RECURSIVE ClientLists(_)
ClientLists(roster) ==
  IF roster = <<>> THEN {<<>>}
  ELSE { <<MakeClient(Head(roster).name, Head(roster).group_id, r)>> \o rest :
           r \in Head(roster).menu, rest \in ClientLists(Tail(roster)) }

Blackouts ==
  { <<>>, <<[start |-> T0810, end |-> T0820]>> }

Payloads ==
  { [cycle_length |-> <<c>>, workday_start |-> T0800, workday_end |-> T0830,
     max_clients_per_slot |-> <<k>>, blackouts |-> b, clients |-> cl] :
      c \in {1, MaxCycle}, k \in {1, MaxCap}, b \in Blackouts,
      cl \in UNION {ClientLists(ro) : ro \in Rosters} }

Init == \E p \in Payloads : Entry(p)

Spec == Init /\ [][Next]_vars

\* two requests with the same payload, one after the other
TwiceSpec == Init /\ [][Next \/ Rerun]_vars

\* ------------------------------- the placement loops without their `break`
\* the group loop of lines 236-280 with the `break` of line 280 left out: an
\* iteration that places nothing records the diagnostic and the loop goes on
GroupRetry ==
  /\ pc = "group_loop"
  /\ sessions_needed_of(Template) > 0
  /\ GroupFit = <<>>
  /\ reason' = analyze_failure_reason(combined_avail_by_day(Members),
                                      slots_per_session_of(Template))
  /\ round' = round + 1
  /\ pc' = IF round' < sessions_needed_of(Template) THEN "group_loop" ELSE "group_end"
  /\ UNCHANGED <<payload, run, first_result, days, time_slots, max_clients_per_slot,
                 timetable, student_colors, groups, solo_clients, unit,
                 scheduled_count, used_days, used_day_indices, per_day_counts,
                 conflicts, summary, placements>>

\* the solo loop of lines 346-390 with the `break` of line 390 left out
SoloRetry ==
  /\ pc = "solo_loop"
  /\ sessions_needed_of(Solo) > 0
  /\ SoloFit = <<>>
  /\ reason' = analyze_failure_reason(normalize_availability(Solo),
                                      slots_per_session_of(Solo))
  /\ round' = round + 1
  /\ pc' = IF round' < sessions_needed_of(Solo) THEN "solo_loop" ELSE "solo_end"
  /\ UNCHANGED <<payload, run, first_result, days, time_slots, max_clients_per_slot,
                 timetable, student_colors, groups, solo_clients, unit,
                 scheduled_count, used_days, used_day_indices, per_day_counts,
                 conflicts, summary, placements>>

NoBreakNext ==
  \/ Setup
  \/ GroupSkip
  \/ GroupPlace
  \/ GroupRetry
  \/ GroupFinish
  \/ SoloSkip
  \/ SoloPlace
  \/ SoloRetry
  \/ SoloFinish

\* requirements with one session more than the scheduling payloads ask for,
\* so that iterations are left after one that placed and one that failed
Retrying ==
  { Requirement(0, 0, [spacing_rule |-> "none", max_per_day |-> 0, availability |-> AvAll]) }
  \cup { Requirement(n, len, pat) :
           n \in 1..(MaxSessions + 1), len \in {10, 15},
           pat \in { [spacing_rule |-> "none", max_per_day |-> 0, availability |-> AvAll],
                     [spacing_rule |-> "once_per_day", max_per_day |-> 0,
                      availability |-> AvAll],
                     [spacing_rule |-> "no_consecutive_days", max_per_day |-> 0,
                      availability |-> AvAll],
                     [spacing_rule |-> "none", max_per_day |-> 1,
                      availability |-> AvGap] } }

RetryRosters ==
  { <<Who(<<"a">>, "", Retrying)>>,
    <<Who(<<"a">>, "G1", Retrying), Who(<<"b">>, "G1", {Follower(AvAll)})>>,
    <<Who(<<"a">>, "", Retrying), Who(<<"b">>, "", Capped)>> }

RetryPayloads ==
  { [cycle_length |-> <<c>>, workday_start |-> T0800, workday_end |-> T0830,
     max_clients_per_slot |-> <<k>>, blackouts |-> b, clients |-> cl] :
      c \in {1, MaxCycle}, k \in {1, MaxCap}, b \in Blackouts,
      cl \in UNION {ClientLists(ro) : ro \in RetryRosters} }

InitRetry == \E p \in RetryPayloads : Entry(p)

\* the engine that attempts all sessions_needed iterations of every unit
NoBreakSpec == InitRetry /\ [][NoBreakNext]_vars

\* ----------------------------------------- payloads for the slot grid
\* Longest blackout list a payload of the slot-grid specification carries.
MaxBlackouts == 2

T0750 == <<"0", "7", ":", "5", "0">>
T0850 == <<"0", "8", ":", "5", "0">>
T0900 == <<"0", "9", ":", "0", "0">>

StartInputs ==
  { T0800, T0750, <<>>,
    <<"8", ":", "0", "5">>,
    <<"0", "8", "0", "0">>,
    <<"0", "9", ":", "x", "x">> }

EndInputs ==
  { T0830, T0900, T0800, <<>>,
    <<"0", "7", ":", "0", "0">>,
    <<"9", ":", "7", "0">> }

BlackoutInputs ==
  { [start |-> T0810, end |-> T0820],
    [start |-> T0820, end |-> T0810],
    [start |-> <<>>, end |-> T0900],
    [start |-> T0800, end |-> T0830],
    [start |-> <<"0", "8", ":", "4", "5">>, end |-> T0900] }

RECURSIVE BlackoutLists(_)
BlackoutLists(n) ==
  IF n = 0 THEN {<<>>}
  ELSE BlackoutLists(n - 1)
       \cup {Append(l, b) : l \in {x \in BlackoutLists(n - 1) : Len(x) = n - 1},
                            b \in BlackoutInputs}

SlotPayloads ==
  { [cycle_length |-> <<c>>, workday_start |-> ws, workday_end |-> we,
     max_clients_per_slot |-> <<1>>, blackouts |-> b, clients |-> <<>>] :
      c \in {1, 2}, ws \in StartInputs, we \in EndInputs,
      b \in BlackoutLists(MaxBlackouts) }

InitSlots == \E p \in SlotPayloads : Entry(p)

\* run_scheduler up to the construction of the grid, on payloads without clients
SlotSpec == InitSlots /\ [][Setup]_vars

\* ------------------------------------ payloads for the top-level parameters
\* cycle_length as the payload may carry it: absent, or any integer
CycleInputs == {<<>>} \cup {<<v>> : v \in {-1, 0, 1, 2, 19, 20, 21, 25}}

\* max_clients_per_slot as the payload may carry it: absent, or any integer
CapInputs == {<<>>} \cup {<<v>> : v \in {-1, 0, 1, 2, 49, 50, 51, 60}}

ParamPayloads ==
  { [cycle_length |-> c, workday_start |-> T0800, workday_end |-> T0830,
     max_clients_per_slot |-> k, blackouts |-> <<>>, clients |-> <<>>] :
      c \in CycleInputs, k \in CapInputs }

InitParams == \E p \in ParamPayloads : Entry(p)

\* run_scheduler up to the construction of the grid, on the parameter payloads
ParamSpec == InitParams /\ [][Setup]_vars

\* ------------------------------------------------------------- claims
Started == pc # "start"

Done == pc = "done"

Named == {i \in DOMAIN payload.clients : NameOf(payload.clients[i]) # <<>>}

\* no two named clients of the payload carry the same trimmed name
NamesDistinct ==
  \A i, j \in Named :
    i # j => NameOf(payload.clients[i]) # NameOf(payload.clients[j])

Cells == {<<d, s>> : d \in Range(days), s \in Range(time_slots)}

Occupants(cell) == Range(timetable[cell[1]][cell[2]])

\* the slots a client lists for a day, under either spelling of the day key
Listed(client, day) ==
  UNION {Range(client.availability[i].times) :
           i \in {j \in DOMAIN client.availability :
                    \/ client.availability[j].key = day
                    \/ /\ ~StartsWithDay(client.availability[j].key)
                       /\ <<"D", "a", "y">> \o client.availability[j].key = day}}

\* C1: capacity safety: at every step, every slot of every day holds at most
\* max_clients_per_slot (as clamped) occupants.
C1_Capacity ==
  Started => \A cell \in Cells :
               Len(timetable[cell[1]][cell[2]]) <= max_clients_per_slot

\* a slot is filled to a capacity of at least 2 by a group booking
C1_Witness ==
  /\ Done
  /\ max_clients_per_slot >= 2
  /\ \E i \in DOMAIN placements : placements[i].kind = "group"
  /\ \E cell \in Cells : Len(timetable[cell[1]][cell[2]]) = max_clients_per_slot

\* C2: availability is respected: with distinct entity names, every name in a
\* cell of the grid belongs to a client that lists that slot for that day; for
\* a group this holds for every member.
C2_Availability ==
  (Started /\ NamesDistinct) =>
    \A cell \in Cells : \A n \in Occupants(cell) :
      \A i \in Named :
        NameOf(payload.clients[i]) = n => cell[2] \in Listed(payload.clients[i], cell[1])

\* a group is booked although a later member lists fewer slots than the first
C2_Witness ==
  /\ Done
  /\ NamesDistinct
  /\ \E g \in Range(groups) :
       /\ Len(g.members) = 2
       /\ g.members[1].availability = AvAll
       /\ g.members[2].availability = AvMerged
       /\ \E cell \in Cells : NameOf(g.members[2]) \in Occupants(cell)

GroupNames(g) == {NameOf(g.members[i]) : i \in DOMAIN g.members}

MembersDistinct(g) ==
  \A i, j \in DOMAIN g.members :
    i # j => NameOf(g.members[i]) # NameOf(g.members[j])

\* C3 as stated: for every group whose members carry distinct names, every
\* cell holds all of the members or none of them.
C3_AsStated ==
  Started =>
    \A g \in Range(groups) :
      MembersDistinct(g) =>
        \A cell \in Cells :
          \/ GroupNames(g) \subseteq Occupants(cell)
          \/ GroupNames(g) \cap Occupants(cell) = {}

\* the named clients outside group g that carry the name of one of its members
Namesakes(g) ==
  {i \in Named : /\ payload.clients[i].group_id # g.group_id
                 /\ NameOf(payload.clients[i]) \in GroupNames(g)}

\* C3: group atomicity: for every group whose members carry distinct names
\* that no client outside the group carries, and every cell of the grid, at
\* every step, all members are in the cell or none is.
C3_Atomicity ==
  Started =>
    \A g \in Range(groups) :
      (MembersDistinct(g) /\ Namesakes(g) = {}) =>
        \A cell \in Cells :
          \/ GroupNames(g) \subseteq Occupants(cell)
          \/ GroupNames(g) \cap Occupants(cell) = {}

\* a two-member group holds a block of two slots, both members in each
C3_Witness ==
  /\ Started
  /\ \E g \in Range(groups) :
       /\ MembersDistinct(g)
       /\ Namesakes(g) = {}
       /\ Cardinality(GroupNames(g)) = 2
       /\ Cardinality({cell \in Cells : GroupNames(g) \subseteq Occupants(cell)}) >= 2

\* the log entries of one unit, as positions of the placement log
PlacedBy(kind, i) ==
  {k \in DOMAIN placements : placements[k].kind = kind /\ placements[k].unit = i}

\* the client whose requirements a unit follows
Lead(kind, i) == IF kind = "group" THEN groups[i].members[1] ELSE solo_clients[i]

UnitIds ==
  {<<"group", i>> : i \in DOMAIN groups} \cup {<<"solo", i>> : i \in DOMAIN solo_clients}

\* the client whose requirements client c is scheduled by: itself, or the
\* first named client of the payload with its group_id
LeadOfClient(c) ==
  IF c.group_id = "" THEN c
  ELSE payload.clients[CHOOSE i \in Named :
         /\ payload.clients[i].group_id = c.group_id
         /\ \A j \in Named : payload.clients[j].group_id = c.group_id => i <= j]

\* the positions (from 0) of the days on which a name is in the grid
DaysHolding(n) ==
  {i \in 0..(Len(days) - 1) :
     \E s \in Range(time_slots) : n \in Range(timetable[days[i + 1]][s])}

SlotsHolding(n, day) == {s \in Range(time_slots) : n \in Range(timetable[day][s])}

\* C4: spacing rules, at every step: two placed sessions of a once_per_day unit
\* are never on the same day, and two placed sessions of a no_consecutive_days
\* unit are on days whose positions differ by at least 2; in the grid (entity
\* names distinct) a once_per_day client holds at most one block per day and a
\* no_consecutive_days client holds no two days less than 2 apart.
C4_Spacing ==
  Started =>
    /\ \A u \in UnitIds : \A j, k \in PlacedBy(u[1], u[2]) :
         j # k =>
           /\ Lead(u[1], u[2]).spacing_rule = "once_per_day" =>
                placements[j].day_index # placements[k].day_index
           /\ Lead(u[1], u[2]).spacing_rule = "no_consecutive_days" =>
                Abs(placements[j].day_index - placements[k].day_index) >= 2
    /\ NamesDistinct =>
         \A i \in Named :
           LET c == payload.clients[i]
               lead == LeadOfClient(c)
           IN /\ lead.spacing_rule = "once_per_day" =>
                   \A d \in Range(days) :
                     Cardinality(SlotsHolding(NameOf(c), d)) <= slots_per_session_of(lead)
              /\ lead.spacing_rule = "no_consecutive_days" =>
                   \A a, b \in DaysHolding(NameOf(c)) : a # b => Abs(a - b) >= 2

\* a no_consecutive_days unit and a once_per_day unit each placed two sessions
C4_Witness ==
  /\ Done
  /\ \E u \in UnitIds :
       /\ Lead(u[1], u[2]).spacing_rule = "no_consecutive_days"
       /\ Cardinality(PlacedBy(u[1], u[2])) = 2
  /\ \E u \in UnitIds :
       /\ Lead(u[1], u[2]).spacing_rule = "once_per_day"
       /\ Cardinality(PlacedBy(u[1], u[2])) = 2

ConflictsOf(kind, i) ==
  {k \in DOMAIN conflicts : conflicts[k].kind = kind /\ conflicts[k].unit = i}

\* the units whose processing is over
Finished(u) ==
  \/ Done
  \/ u[1] = "group" /\ pc \in {"solo_loop", "solo_end"}
  \/ u[1] = "group" /\ pc \in {"group_loop", "group_end"} /\ u[2] < unit
  \/ u[1] = "solo" /\ pc \in {"solo_loop", "solo_end"} /\ u[2] < unit

\* C5: for every unit, 0 <= scheduled <= needed at every step and in the
\* summary, and once the unit is processed the conflict list holds exactly one
\* entry for it if it placed fewer sessions than it needs and none otherwise.
C5_Counts ==
  Started =>
    /\ pc \in {"group_loop", "group_end"} =>
         /\ 0 <= scheduled_count
         /\ scheduled_count <= sessions_needed_of(groups[unit].members[1])
         /\ scheduled_count = Cardinality(PlacedBy("group", unit))
    /\ pc \in {"solo_loop", "solo_end"} =>
         /\ 0 <= scheduled_count
         /\ scheduled_count <= sessions_needed_of(solo_clients[unit])
         /\ scheduled_count = Cardinality(PlacedBy("solo", unit))
    /\ \A n \in DOMAIN summary :
         0 <= summary[n].scheduled /\ summary[n].scheduled <= summary[n].needed
    /\ \A u \in UnitIds :
         LET placed == Cardinality(PlacedBy(u[1], u[2]))
             needed == Lead(u[1], u[2]).sessions_needed
         IN /\ placed <= needed \/ placed = 0
            /\ Finished(u) =>
                 Cardinality(ConflictsOf(u[1], u[2])) = IF placed < needed THEN 1 ELSE 0
            /\ ~Finished(u) => ConflictsOf(u[1], u[2]) = {}
            /\ \A k \in ConflictsOf(u[1], u[2]) :
                 conflicts[k].scheduled = placed /\ conflicts[k].needed = needed
    /\ NamesDistinct =>
         \A i \in Named :
           LET c == payload.clients[i]
               u == IF c.group_id = ""
                    THEN <<"solo", CHOOSE k \in DOMAIN solo_clients : solo_clients[k] = c>>
                    ELSE <<"group", CHOOSE k \in DOMAIN groups : groups[k].group_id = c.group_id>>
           IN IF Finished(u) /\ Lead(u[1], u[2]).sessions_needed > 0
              THEN /\ NameOf(c) \in DOMAIN summary
                   /\ summary[NameOf(c)].scheduled = Cardinality(PlacedBy(u[1], u[2]))
                   /\ summary[NameOf(c)].needed = Lead(u[1], u[2]).sessions_needed
              ELSE NameOf(c) \notin DOMAIN summary

\* the run is over with one unit fully scheduled and another one short
C5_Witness ==
  /\ Done
  /\ Len(conflicts) = 1
  /\ \E u \in UnitIds :
       /\ Lead(u[1], u[2]).sessions_needed = 2
       /\ Cardinality(PlacedBy(u[1], u[2])) = 2
  /\ \E u \in UnitIds :
       /\ Lead(u[1], u[2]).sessions_needed = 2
       /\ Cardinality(PlacedBy(u[1], u[2])) = 1

\* the position in the payload of the first named client with a group_id
FirstSeen(gid) ==
  CHOOSE i \in Named :
    /\ payload.clients[i].group_id = gid
    /\ \A j \in Named : payload.clients[j].group_id = gid => i <= j

SoloPositions == {i \in Named : payload.clients[i].group_id = ""}

\* the position in the payload of the i-th solo client
SoloPos(i) ==
  CHOOSE q \in SoloPositions : Cardinality({r \in SoloPositions : r <= q}) = i

\* u is processed before v: groups before solos, each kind by its index
Before(u, v) ==
  \/ u[1] = "group" /\ v[1] = "solo"
  \/ u[1] = v[1] /\ u[2] < v[2]

UnitMembers(u) == IF u[1] = "group" THEN groups[u[2]].members ELSE <<solo_clients[u[2]]>>

Size(u) == Len(UnitMembers(u))

\* the slots every member of the unit lists for the day
Usable(u, day) ==
  {s \in Range(time_slots) :
     \A k \in DOMAIN UnitMembers(u) : s \in Listed(UnitMembers(u)[k], day)}

UsableCells(u) == {cell \in Cells : cell[2] \in Usable(u, cell[1])}

\* the least n >= 1 with n * 10 minutes covering the session length
SlotsNeeded(client) ==
  LET len == IF client.session_length_minutes <= 0 THEN TIME_SLOT_MINUTES
             ELSE client.session_length_minutes
  IN CHOOSE n \in 1..len :
       n * TIME_SLOT_MINUTES >= len /\ (n - 1) * TIME_SLOT_MINUTES < len

\* C6: units are processed one after the other, all groups first in the order
\* in which their group_id first appears in the payload, then the solo clients
\* in input order; so when two units (entity names distinct) can each use only
\* one and the same slot and the capacity admits either but not both, the one
\* processed first places a session and the other ends with no session and a
\* conflict entry that carries the contention diagnostic.
C6_Order ==
  Started =>
    /\ \A i, j \in DOMAIN groups :
         i < j => FirstSeen(groups[i].group_id) < FirstSeen(groups[j].group_id)
    /\ {groups[i].group_id : i \in DOMAIN groups}
         = {payload.clients[i].group_id : i \in Named} \ {""}
    /\ Len(solo_clients) = Cardinality(SoloPositions)
    /\ \A i \in DOMAIN solo_clients : solo_clients[i] = payload.clients[SoloPos(i)]
    /\ \A j, k \in DOMAIN placements :
         j < k => \/ placements[j].kind = placements[k].kind
                     /\ placements[j].unit <= placements[k].unit
                  \/ placements[j].kind = "group" /\ placements[k].kind = "solo"
    /\ \A j, k \in DOMAIN conflicts :
         j < k => Before(<<conflicts[j].kind, conflicts[j].unit>>,
                         <<conflicts[k].kind, conflicts[k].unit>>)
    /\ \A k \in DOMAIN placements :
         ~Finished(<<placements[k].kind, placements[k].unit>>) =>
           /\ pc \in (IF placements[k].kind = "group"
                      THEN {"group_loop", "group_end"} ELSE {"solo_loop", "solo_end"})
           /\ placements[k].unit = unit
    /\ (Done /\ NamesDistinct) =>
         \A u, v \in UnitIds :
           ( /\ Before(u, v)
             /\ Lead(u[1], u[2]).sessions_needed >= 1
             /\ Lead(v[1], v[2]).sessions_needed >= 1
             /\ SlotsNeeded(Lead(u[1], u[2])) = 1
             /\ SlotsNeeded(Lead(v[1], v[2])) = 1
             /\ Cardinality(UsableCells(u)) = 1
             /\ UsableCells(u) = UsableCells(v)
             /\ Size(u) <= max_clients_per_slot
             /\ Size(v) <= max_clients_per_slot
             /\ Size(u) + Size(v) > max_clients_per_slot
             /\ \A w \in UnitIds \ {u, v} :
                  \/ Lead(w[1], w[2]).sessions_needed <= 0
                  \/ UsableCells(w) \cap UsableCells(u) = {} )
           => /\ Cardinality(PlacedBy(u[1], u[2])) >= 1
              /\ PlacedBy(v[1], v[2]) = {}
              /\ \E k \in ConflictsOf(v[1], v[2]) : conflicts[k].reason = BlockedMsg

\* a group and a solo client that precedes it in the payload compete for one
\* slot: the group holds it, the solo client has the contention conflict
C6_Witness ==
  /\ Done
  /\ NamesDistinct
  /\ Len(groups) = 1 /\ Len(solo_clients) = 1
  /\ SoloPos(1) < FirstSeen(groups[1].group_id)
  /\ Size(<<"group", 1>>) = max_clients_per_slot
  /\ Cardinality(UsableCells(<<"group", 1>>)) = 1
  /\ UsableCells(<<"group", 1>>) = UsableCells(<<"solo", 1>>)
  /\ Cardinality(PlacedBy("group", 1)) = 1
  /\ PlacedBy("solo", 1) = {}
  /\ \E k \in ConflictsOf("solo", 1) : conflicts[k].reason = BlockedMsg

\* the unit whose session loop is running
Current == IF pc \in {"group_loop", "group_end"} THEN <<"group", unit>> ELSE <<"solo", unit>>

\* the day positions (from 0) of the sessions a unit has placed so far
PastDays(u) == {placements[k].day_index : k \in PlacedBy(u[1], u[2])}

PlacedOn(u, day_index) ==
  Cardinality({k \in PlacedBy(u[1], u[2]) : placements[k].day_index = day_index})

\* the unit's gating checks let the day through
DayOpen(u, day_index) ==
  LET lead == Lead(u[1], u[2])
  IN /\ lead.spacing_rule = "once_per_day" => day_index \notin PastDays(u)
     /\ lead.spacing_rule = "no_consecutive_days" =>
          \A q \in PastDays(u) : Abs(day_index - q) >= 2
     /\ (u[1] = "solo" /\ lead.max_per_day >= 1) =>
          PlacedOn(u, day_index) < lead.max_per_day

\* every slot of the window is usable by the unit and has room for its size
WindowFree(u, day_index, start_idx) ==
  \A k \in 1..SlotsNeeded(Lead(u[1], u[2])) :
    /\ start_idx + k <= Len(time_slots)
    /\ time_slots[start_idx + k] \in Usable(u, days[day_index + 1])
    /\ Len(timetable[days[day_index + 1]][time_slots[start_idx + k]]) + Size(u)
         <= max_clients_per_slot

\* the (day position, window start) pairs feasible for the unit in this state
Feasible(u) ==
  {f \in (0..(Len(days) - 1)) \X (0..(Len(time_slots) - 1)) :
     DayOpen(u, f[1]) /\ WindowFree(u, f[1], f[2])}

LexLeq(f, g) == f[1] < g[1] \/ (f[1] = g[1] /\ f[2] <= g[2])

IsPrefix(a, b) == Len(a) <= Len(b) /\ SubSeq(b, 1, Len(a)) = a

\* one step of the run, seen as a placement iteration
C7_Step ==
  /\ placements' # placements =>
       LET new == placements'[Len(placements')]
           u == Current
           f == <<new.day_index, new.start_idx>>
       IN /\ placements' = Append(placements, new)
          /\ <<new.kind, new.unit>> = u
          /\ f \in Feasible(u)
          /\ \A g \in Feasible(u) : LexLeq(f, g)
          /\ \A k \in 1..SlotsNeeded(Lead(u[1], u[2])) :
               \A i \in DOMAIN UnitMembers(u) :
                 NameOf(UnitMembers(u)[i])
                   \in Range(timetable'[days[f[1] + 1]][time_slots[f[2] + k]])
  /\ Started =>
       /\ \A cell \in Cells :
            IsPrefix(timetable[cell[1]][cell[2]], timetable'[cell[1]][cell[2]])
       /\ IsPrefix(placements, placements')
       /\ timetable' # timetable => placements' # placements

\* C7: greedy first-fit: every iteration that places a session books the
\* lexicographically smallest (day position, window start) among the pairs that
\* are feasible for the unit in the grid at the start of the iteration, and no
\* step removes or moves anything booked before.
C7_FirstFit == [][C7_Step]_vars

\* a session was booked past the first window of its day, and one past the first day
C7_Witness ==
  /\ Done
  /\ \E k \in DOMAIN placements :
       placements[k].start_idx > 0 /\ placements[k].day_index = 0
  /\ \E k \in DOMAIN placements :
       /\ placements[k].day_index > 0
       /\ Lead(placements[k].kind, placements[k].unit).spacing_rule = "none"

\* some day holds a run of as many index-consecutive slots as the unit's
\* session takes, all usable by the unit
HasBlock(u) ==
  \E d \in Range(days) :
    \E w \in 0..(Len(time_slots) - SlotsNeeded(Lead(u[1], u[2]))) :
      \A k \in 1..SlotsNeeded(Lead(u[1], u[2])) : time_slots[w + k] \in Usable(u, d)

Diagnostic(u) == IF HasBlock(u) THEN BlockedMsg ELSE NoBlockMsg

\* C8: diagnostics: a processed unit that placed fewer sessions than it needs
\* has one conflict entry whose diagnostic is the structural message if no day
\* has a full block inside its usable set and the contention message
\* otherwise; a unit with no such block places nothing; in the summary (entity
\* names distinct) a short unit carries that diagnostic and a fully scheduled
\* one an empty reason.
C8_Diagnostics ==
  Started =>
    /\ \A u \in UnitIds :
         /\ ~HasBlock(u) => PlacedBy(u[1], u[2]) = {}
         /\ \A k \in ConflictsOf(u[1], u[2]) : conflicts[k].reason = Diagnostic(u)
         /\ (/\ Finished(u)
             /\ Cardinality(PlacedBy(u[1], u[2])) < Lead(u[1], u[2]).sessions_needed)
              => Cardinality(ConflictsOf(u[1], u[2])) = 1
    /\ NamesDistinct =>
         \A u \in UnitIds : \A i \in DOMAIN UnitMembers(u) :
           LET n == NameOf(UnitMembers(u)[i])
           IN n \in DOMAIN summary =>
                summary[n].reason =
                  IF summary[n].scheduled < summary[n].needed THEN Diagnostic(u) ELSE ""

\* both diagnostics occur in one run, the structural one for a unit that needs
\* two sessions, and a third kind of unit is fully scheduled in another run
C8_Witness ==
  /\ Done
  /\ \E j, k \in DOMAIN conflicts :
       /\ conflicts[j].reason = NoBlockMsg
       /\ conflicts[j].needed = 2
       /\ conflicts[j].scheduled = 0
       /\ conflicts[k].reason = BlockedMsg
       /\ conflicts[k].scheduled = 1

\* the payload of Scenario C: one group of two members and nobody else, rule
\* no_consecutive_days, two sessions needed, at least three days, and on each of
\* the first three days a full block that both members list
ScenarioC ==
  /\ Len(groups) = 1
  /\ Len(solo_clients) = 0
  /\ Len(groups[1].members) = 2
  /\ Lead("group", 1).spacing_rule = "no_consecutive_days"
  /\ Lead("group", 1).sessions_needed = 2
  /\ Len(days) >= 3
  /\ \A d \in 1..3 :
       \E w \in 0..(Len(time_slots) - SlotsNeeded(Lead("group", 1))) :
         \A k \in 1..SlotsNeeded(Lead("group", 1)) :
           time_slots[w + k] \in Usable(<<"group", 1>>, days[d])

\* the group ends with two sessions, on the first and on the third day
LandsOnDay1AndDay3 ==
  /\ Cardinality(PlacedBy("group", 1)) = 2
  /\ PastDays(<<"group", 1>>) = {0, 2}
  /\ \A i \in DOMAIN groups[1].members :
       /\ summary[NameOf(groups[1].members[i])].scheduled = 2
       /\ DaysHolding(NameOf(groups[1].members[i])) = {0, 2}
  /\ conflicts = <<>>

\* C9 as stated: Scenario C ends with both sessions placed, on Day1 and Day3,
\* whatever max_clients_per_slot is.
C9_AsStated == (Done /\ ScenarioC) => LandsOnDay1AndDay3

\* C9: Scenario C ends with both sessions placed, on Day1 and Day3, provided
\* max_clients_per_slot is at least the size of the group (2).
C9_ScenarioC ==
  (Done /\ ScenarioC /\ max_clients_per_slot >= 2) => LandsOnDay1AndDay3

\* the run of Scenario C with room for the group is over
C9_Witness ==
  /\ Done
  /\ ScenarioC
  /\ max_clients_per_slot >= 2
  /\ Cardinality(PlacedBy("group", 1)) = 2

\* the blackout windows the builder keeps: both ends given, end after start
KeptWindows(blackouts) ==
  {w \in {<<ParsedMinutes(blackouts[i].start), ParsedMinutes(blackouts[i].end)>> :
            i \in {j \in DOMAIN blackouts :
                     blackouts[j].start # <<>> /\ blackouts[j].end # <<>>}} :
     w[2] > w[1]}

\* the start times the grid must hold for the payload, in minutes
ExpectedStarts ==
  LET ws == IF payload.workday_start = <<>> THEN Default0800 ELSE payload.workday_start
      we == IF payload.workday_end = <<>> THEN Default1700 ELSE payload.workday_end
      fallback == ParsedMinutes(we) <= ParsedMinutes(ws)
      first == IF fallback THEN 8 * 60 ELSE ParsedMinutes(ws)
      last == IF fallback THEN 17 * 60 ELSE ParsedMinutes(we)
  IN {t \in first..(last - 1) :
        /\ (t - first) % TIME_SLOT_MINUTES = 0
        /\ \A w \in KeptWindows(payload.blackouts) : ~(w[1] <= t /\ t < w[2])}

\* "HH:MM": two digits, a colon, two digits
IsClock(t) ==
  /\ Len(t) = 5
  /\ t[3] = ":"
  /\ \A i \in {1, 2, 4, 5} : IsDigit(t[i])

\* C10: the slot list is, in increasing order, exactly the start times
\* start + k*10 minutes in [start, end) that lie in no kept blackout window
\* [sb, eb) with eb > sb, with 08:00-17:00 in place of a window whose end is not
\* after its start; 08:00-09:00 without blackouts gives 08:00..08:50; every day
\* of the grid has exactly these slots.
C10_Slots ==
  Started =>
    LET expected == ExpectedStarts
        starts == [i \in DOMAIN time_slots |-> ParsedMinutes(time_slots[i])]
    IN /\ \A i \in DOMAIN time_slots : IsClock(time_slots[i])
       /\ Range(starts) = expected
       /\ \A i \in 1..(Len(starts) - 1) : starts[i] < starts[i + 1]
       /\ ( /\ payload.workday_start = T0800
            /\ payload.workday_end = T0900
            /\ payload.blackouts = <<>> )
            => time_slots = <<T0800, T0810, T0820, T0830,
                              <<"0", "8", ":", "4", "0">>, T0850>>
       /\ DOMAIN timetable = Range(days)
       /\ \A d \in Range(days) : DOMAIN timetable[d] = Range(time_slots)

\* a blackout removed 08:10 and left 08:20, the end of its window, in the grid
C10_Witness ==
  /\ Started
  /\ \E i \in DOMAIN payload.blackouts :
       payload.blackouts[i] = [start |-> T0810, end |-> T0820]
  /\ T0800 \in Range(time_slots)
  /\ T0810 \notin Range(time_slots)
  /\ T0820 \in Range(time_slots)
  /\ Len(days) = 2

\* v clamped to [lo, hi]
ClampedTo(v, lo, hi) ==
  CHOOSE r \in lo..hi : \A q \in lo..hi : Abs(q - v) >= Abs(r - v)

\* C11 as stated: for every integer cycle_length the result has that value
\* clamped to [1,20] days (below 1 gives 1, above 20 gives 20) and 6 days only
\* when the field is absent; for every integer max_clients_per_slot the
\* effective capacity is that value clamped to [1,50], and 1 when absent.
C11_AsStated ==
  Started =>
    /\ Len(days) = IF payload.cycle_length = <<>> THEN 6
                   ELSE ClampedTo(payload.cycle_length[1], 1, 20)
    /\ max_clients_per_slot = IF payload.max_clients_per_slot = <<>> THEN 1
                              ELSE ClampedTo(payload.max_clients_per_slot[1], 1, 50)

\* sessions_needed summed over the leads of a list of units, negative as 0
RECURSIVE SumNeeded(_)
SumNeeded(leads) ==
  IF leads = <<>> THEN 0
  ELSE (IF Head(leads).sessions_needed > 0 THEN Head(leads).sessions_needed ELSE 0)
       + SumNeeded(Tail(leads))

TotalNeeded ==
  SumNeeded([i \in DOMAIN groups |-> groups[i].members[1]]) + SumNeeded(solo_clients)

\* the placement iterations run so far: the placing ones, the failing ones
\* of the units already reported, and the failing one of the current unit
Iterations ==
  Len(placements) + Len(conflicts)
  + (IF pc \in {"group_end", "solo_end"} /\ reason # "" THEN 1 ELSE 0)

Failed(u) == ConflictsOf(u[1], u[2]) # {}

HasRecords(u) ==
  \A k \in DOMAIN UnitMembers(u) :
    NameOf(UnitMembers(u)[k]) # <<>> => NameOf(UnitMembers(u)[k]) \in DOMAIN summary

\* C12 as stated: at the return, every unit that follows a failing unit in
\* processing order has its summary record.
C12_AsStated ==
  Done => \A u, v \in UnitIds : (Before(u, v) /\ Failed(u)) => HasRecords(v)

\* the steps a unit that has not been started can still take: its placement
\* iterations, and the step that skips it or reports it
UnitCost(lead) == (IF lead.sessions_needed > 0 THEN lead.sessions_needed ELSE 0) + 2

RECURSIVE SumCost(_)
SumCost(leads) ==
  IF leads = <<>> THEN 0 ELSE UnitCost(Head(leads)) + SumCost(Tail(leads))

GroupLeads(gs) == [i \in DOMAIN gs |-> gs[i].members[1]]

\* an upper bound of the number of steps left before the return
Rank ==
  CASE pc = "start" ->
         1 + SumCost(GroupLeads(groups_of(payload.clients)))
           + SumCost(solo_clients_of(payload.clients))
    [] pc = "group_loop" ->
         UnitCost(Template) - 1 - scheduled_count
           + SumCost(SubSeq(GroupLeads(groups), unit + 1, Len(groups)))
           + SumCost(solo_clients)
    [] pc = "group_end" ->
         1 + SumCost(SubSeq(GroupLeads(groups), unit + 1, Len(groups)))
           + SumCost(solo_clients)
    [] pc = "solo_loop" ->
         UnitCost(Solo) - 1 - scheduled_count
           + SumCost(SubSeq(solo_clients, unit + 1, Len(solo_clients)))
    [] pc = "solo_end" ->
         1 + SumCost(SubSeq(solo_clients, unit + 1, Len(solo_clients)))
    [] OTHER -> 0

\* the guards of the actions: some step of the run can be taken
CanStep ==
  \/ pc = "start"
  \/ /\ pc = "group_loop"
     /\ unit \in DOMAIN groups
     /\ \/ sessions_needed_of(Template) <= 0
        \/ sessions_needed_of(Template) > 0 /\ GroupFit # <<>>
        \/ sessions_needed_of(Template) > 0 /\ GroupFit = <<>>
  \/ pc = "group_end" /\ unit \in DOMAIN groups
  \/ /\ pc = "solo_loop"
     /\ unit \in DOMAIN solo_clients
     /\ \/ sessions_needed_of(Solo) <= 0
        \/ sessions_needed_of(Solo) > 0 /\ SoloFit # <<>>
        \/ sessions_needed_of(Solo) > 0 /\ SoloFit = <<>>
  \/ pc = "solo_end" /\ unit \in DOMAIN solo_clients

\* C12: the run always reaches its return: before the return a step is always
\* possible and every step lowers a bound of the steps left that never goes
\* below 0; it runs at most sum(sessions_needed) placement iterations; and a
\* shortfall never aborts it: at the return every unit with sessions_needed > 0
\* that follows a failing unit has been through its placement loop (a session
\* placed or a conflict reported) and has its summary record; a unit with
\* sessions_needed <= 0 is skipped without one.
C12_Completes ==
  /\ [](~Done => CanStep)
  /\ [](Rank >= 0)
  /\ [][Rank' < Rank]_vars
  /\ [](Iterations <= TotalNeeded)
  /\ [](Done =>
         \A u, v \in UnitIds :
           (Before(u, v) /\ Failed(u) /\ Lead(v[1], v[2]).sessions_needed > 0) =>
             /\ PlacedBy(v[1], v[2]) # {} \/ Failed(v)
             /\ HasRecords(v)
             /\ \A k \in DOMAIN UnitMembers(v) :
                  LET n == NameOf(UnitMembers(v)[k])
                  IN (n # <<>> /\ NamesDistinct) =>
                       /\ summary[n].needed = Lead(v[1], v[2]).sessions_needed
                       /\ summary[n].scheduled = Cardinality(PlacedBy(v[1], v[2])))

\* a group fell short and the solo client processed after it placed its
\* sessions and has its record
C12_Witness ==
  /\ Done
  /\ NamesDistinct
  /\ Failed(<<"group", 1>>)
  /\ Len(solo_clients) = 1
  /\ Cardinality(PlacedBy("solo", 1)) = 2
  /\ NameOf(solo_clients[1]) \in DOMAIN summary
  /\ summary[NameOf(solo_clients[1])].scheduled = 2

Stopped(u) ==
  \/ Failed(u)
  \/ pc \in {"group_end", "solo_end"} /\ reason # "" /\ Current = u

UnitNames(u) == {NameOf(UnitMembers(u)[k]) : k \in DOMAIN UnitMembers(u)} \ {<<>>}

CellsHolding(n) == {cell \in Cells : n \in Occupants(cell)}

\* the cells of the sessions the placement log holds for a unit
SessionCells(u) ==
  {<<days[placements[k].day_index + 1], time_slots[placements[k].start_idx + j]>> :
     k \in PlacedBy(u[1], u[2]), j \in 1..SlotsNeeded(Lead(u[1], u[2]))}

\* one step of the run, seen from the units that have stopped
C14_Step ==
  /\ (pc \in {"group_loop", "solo_loop"} /\ Lead(Current[1], Current[2]).sessions_needed > 0
        /\ Feasible(Current) = {}) =>
       /\ pc' \in {"group_end", "solo_end"}
       /\ reason' \in {NoBlockMsg, BlockedMsg}
       /\ timetable' = timetable
       /\ placements' = placements
       /\ scheduled_count' = scheduled_count
  /\ \A u \in UnitIds :
       Stopped(u) =>
         /\ Stopped(u)'
         /\ PlacedBy(u[1], u[2])' = PlacedBy(u[1], u[2])
         /\ \A cell \in SessionCells(u) :
              /\ UnitNames(u) \subseteq Range(timetable'[cell[1]][cell[2]])
              /\ IsPrefix(timetable[cell[1]][cell[2]], timetable'[cell[1]][cell[2]])
         /\ NamesDistinct =>
              \A n \in UnitNames(u) : CellsHolding(n)' = CellsHolding(n)
         /\ Cardinality(PlacedBy(u[1], u[2])) < Lead(u[1], u[2]).sessions_needed
         /\ Failed(u)' =>
              \A k \in ConflictsOf(u[1], u[2])' :
                /\ conflicts'[k].scheduled = Cardinality(PlacedBy(u[1], u[2]))
                /\ conflicts'[k].reason \in {NoBlockMsg, BlockedMsg}
                /\ \A n \in UnitNames(u) :
                     NamesDistinct =>
                       /\ summary'[n].scheduled = Cardinality(PlacedBy(u[1], u[2]))
                       /\ summary'[n].reason = conflicts'[k].reason

\* C14: stop at first failure: once a placement iteration of a unit finds no
\* feasible day/window, the step books nothing and ends the unit's loop with a
\* diagnostic; from then on no session is logged or booked for the unit, the
\* cells of its earlier sessions keep its names (and everything booked in them
\* before), and the scheduled count in its conflict entry and summary record
\* is the number of sessions it placed before the failure.
C14_StopAtFirstFailure == [][C14_Step]_vars

\* a unit placed one session, failed on the next one, and a later unit then
\* booked a session of its own
C14_Witness ==
  /\ Done
  /\ NamesDistinct
  /\ \E u, v \in UnitIds :
       /\ Before(u, v)
       /\ Failed(u)
       /\ Cardinality(PlacedBy(u[1], u[2])) = 1
       /\ Lead(u[1], u[2]).sessions_needed = 2
       /\ PlacedBy(v[1], v[2]) # {}
       /\ SessionCells(u) \cap SessionCells(v) # {}

\* positions w+1..w+n of the slot list are not n consecutive 10-minute slots:
\* a blackout removed a slot between two of them
SpansGap(w, n) ==
  \E k \in 1..(n - 1) :
    ParsedMinutes(time_slots[w + k + 1])
      # ParsedMinutes(time_slots[w + k]) + TIME_SLOT_MINUTES

\* the windows of a unit's size that lie inside its usable set on some day
UsableWindows(u) ==
  {f \in (0..(Len(days) - 1)) \X (0..(Len(time_slots) - SlotsNeeded(Lead(u[1], u[2])))) :
     \A k \in 1..SlotsNeeded(Lead(u[1], u[2])) :
       time_slots[f[2] + k] \in Usable(u, days[f[1] + 1])}

\* C15: index contiguity: a session occupies slots_per_session consecutive
\* positions of the blackout-filtered slot list, whatever their clock times;
\* every such window counts for placement (a unit that needs a session and
\* placed none has no window that is usable and has room, gap-spanning windows
\* included) and for the diagnostic (a short unit with a usable window, even
\* one that spans a blackout gap, gets the contention message and one without
\* any the structural message).
C15_IndexContiguity ==
  Started =>
    /\ \A k \in DOMAIN placements :
         LET u == <<placements[k].kind, placements[k].unit>>
             n == placements[k].slots_per_session
         IN /\ n = SlotsNeeded(Lead(u[1], u[2]))
            /\ placements[k].start_idx \in 0..(Len(time_slots) - n)
            /\ \A j \in 1..n :
                 UnitNames(u) \subseteq
                   Occupants(<<days[placements[k].day_index + 1],
                               time_slots[placements[k].start_idx + j]>>)
    /\ \A u \in UnitIds :
         /\ (/\ Finished(u)
             /\ Lead(u[1], u[2]).sessions_needed > 0
             /\ PlacedBy(u[1], u[2]) = {}) => Feasible(u) = {}
         /\ \A k \in ConflictsOf(u[1], u[2]) :
              conflicts[k].reason =
                IF UsableWindows(u) # {} THEN BlockedMsg ELSE NoBlockMsg

\* a session is booked at 08:00 and 08:20, across the blackout that removed
\* 08:10, and a later unit whose only windows span that gap is reported with
\* the contention message
C15_Witness ==
  /\ Done
  /\ time_slots = <<T0800, T0820>>
  /\ \E k \in DOMAIN placements :
       /\ placements[k].slots_per_session = 2
       /\ SpansGap(placements[k].start_idx, 2)
       /\ Occupants(<<days[placements[k].day_index + 1], T0800>>) # {}
       /\ Occupants(<<days[placements[k].day_index + 1], T0820>>) # {}
  /\ \E u \in UnitIds :
       /\ UsableWindows(u) # {}
       /\ \A f \in UsableWindows(u) : SpansGap(f[2], SlotsNeeded(Lead(u[1], u[2])))
       /\ \E k \in ConflictsOf(u[1], u[2]) :
            conflicts[k].reason = BlockedMsg /\ conflicts[k].scheduled = 0

\* C16: daily cap: a solo unit with max_per_day = k >= 1 never has more than k
\* sessions on one day, in the log, in the counter the gate reads and (entity
\* names distinct) in the grid; max_per_day is ignored for group units: a
\* group that stops short has no window left that is usable, has room and
\* passes its spacing rule, whatever its members' max_per_day.
C16_DailyCap ==
  Started =>
    /\ \A i \in DOMAIN solo_clients :
         LET u == <<"solo", i>>
             k == solo_clients[i].max_per_day
         IN k >= 1 =>
              \A d \in 0..(Len(days) - 1) :
                /\ PlacedOn(u, d) <= k
                /\ NamesDistinct =>
                     Cardinality(SlotsHolding(NameOf(solo_clients[i]), days[d + 1]))
                       <= k * SlotsNeeded(solo_clients[i])
    /\ pc \in {"solo_loop", "solo_end"} =>
         \A d \in 0..(Len(days) - 1) : per_day_counts[days[d + 1]] = PlacedOn(Current, d)
    /\ \A i \in DOMAIN groups : Failed(<<"group", i>>) => Feasible(<<"group", i>>) = {}

\* a group whose members carry max_per_day = 1 has two sessions on the first
\* day, and a solo client with max_per_day = 1 has one session on the first
\* day and, with room left on that day, its second one on the next day
C16_Witness ==
  /\ Done
  /\ NamesDistinct
  /\ \E i \in DOMAIN groups :
       /\ \A k \in DOMAIN groups[i].members : groups[i].members[k].max_per_day = 1
       /\ PlacedOn(<<"group", i>>, 0) = 2
  /\ \E i \in DOMAIN solo_clients :
       /\ solo_clients[i].max_per_day = 1
       /\ solo_clients[i].spacing_rule = "none"
       /\ PlacedOn(<<"solo", i>>, 0) = 1
       /\ PlacedOn(<<"solo", i>>, 1) = 1
       /\ \E w \in 0..(Len(time_slots) - 1) : WindowFree(<<"solo", i>>, 0, w)

\* the cells of the window a log entry names
WindowCells(entry) ==
  {<<days[entry.day_index + 1], time_slots[entry.start_idx + j]>> :
     j \in 1..entry.slots_per_session}

NoRepeat(cell) == \A i, j \in DOMAIN cell : i # j => cell[i] # cell[j]

\* one step of the run, seen from the grid
C17_Step ==
  /\ ~Started =>
       /\ DOMAIN timetable' = Range(days')
       /\ \A d \in Range(days') :
            /\ DOMAIN timetable'[d] = Range(time_slots')
            /\ \A sl \in Range(time_slots') : timetable'[d][sl] = <<>>
  /\ Started =>
       /\ days' = days
       /\ time_slots' = time_slots
       /\ DOMAIN timetable' = Range(days)
       /\ \A d \in Range(days) : DOMAIN timetable'[d] = Range(time_slots)
       /\ \A cell \in Cells :
            /\ IsPrefix(timetable[cell[1]][cell[2]], timetable'[cell[1]][cell[2]])
            /\ NoRepeat(timetable'[cell[1]][cell[2]])
       /\ placements' = placements => timetable' = timetable
       /\ placements' # placements =>
            LET new == placements'[Len(placements')]
            IN \A cell \in Cells :
                 LET old == timetable[cell[1]][cell[2]]
                     now == timetable'[cell[1]][cell[2]]
                 IN IF cell \in WindowCells(new)
                    THEN /\ Range(now) = Range(old) \cup UnitNames(Current)
                         /\ \A i, j \in (Len(old) + 1)..Len(now) :
                              i < j =>
                                \E a, b \in DOMAIN UnitMembers(Current) :
                                  /\ a < b
                                  /\ NameOf(UnitMembers(Current)[a]) = now[i]
                                  /\ NameOf(UnitMembers(Current)[b]) = now[j]
                    ELSE now = old

\* C17: grid frame: the grid is built with one empty cell per (day, slot) of
\* days x time_slots and keeps exactly these keys; a step that places a
\* session appends the unit's names, in member order, to the cells of the
\* chosen window on the chosen day and leaves every other cell as it was; any
\* other step (a failed iteration, a skip, a report) changes no cell; no
\* occupant is ever removed, moved or repeated.
C17_GridFrame == [][C17_Step]_vars

\* a cell holds a member of the first group and, after it, the solo client
\* booked later, while another cell is still empty and a unit fell short
C17_Witness ==
  /\ Done
  /\ Len(groups) >= 1 /\ Len(solo_clients) >= 1
  /\ \E cell \in Cells :
       /\ Len(timetable[cell[1]][cell[2]]) = 2
       /\ timetable[cell[1]][cell[2]][1] \in UnitNames(<<"group", 1>>)
       /\ timetable[cell[1]][cell[2]][2] = NameOf(solo_clients[1])
  /\ \E cell \in Cells : timetable[cell[1]][cell[2]] = <<>>
  /\ Len(conflicts) >= 1

\* C18 as stated: two placed sessions of one unit never share a (day, slot),
\* so at the return (entity names distinct) each member of a unit is in
\* exactly scheduled x slots_per_session cells.
C18_AsStated ==
  Started =>
    /\ \A u \in UnitIds : \A j, k \in PlacedBy(u[1], u[2]) :
         j # k => WindowCells(placements[j]) \cap WindowCells(placements[k]) = {}
    /\ (Done /\ NamesDistinct) =>
         \A u \in UnitIds : \A n \in UnitNames(u) :
           n \in DOMAIN summary =>
             Cardinality(CellsHolding(n))
               = summary[n].scheduled * SlotsNeeded(Lead(u[1], u[2]))

\* one step of the engine that attempts every iteration, seen from a unit
\* that has failed an iteration
C19_Step ==
  /\ (pc \in {"group_loop", "solo_loop"} /\ reason # "") =>
       /\ Feasible(Current) = {}
       /\ timetable' = timetable
       /\ placements' = placements
       /\ scheduled_count' = scheduled_count
       /\ used_days' = used_days
       /\ used_day_indices' = used_day_indices
       /\ per_day_counts' = per_day_counts
       /\ reason' = reason
       /\ round' = round + 1
  /\ (pc \in {"group_loop", "solo_loop"} /\ placements' = placements /\ unit' = unit
        /\ pc' # "done" /\ round' # 0) =>
       /\ timetable' = timetable
       /\ scheduled_count' = scheduled_count
       /\ used_days' = used_days
       /\ used_day_indices' = used_day_indices
       /\ per_day_counts' = per_day_counts
       /\ reason' = Diagnostic(Current)
  /\ pc \in {"group_end", "solo_end"} =>
       LET u == Current
           needed == Lead(u[1], u[2]).sessions_needed
       IN /\ round = needed
          /\ scheduled_count = Cardinality(PlacedBy(u[1], u[2]))
          /\ reason = (IF scheduled_count < needed THEN Diagnostic(u) ELSE "")
          /\ (scheduled_count < needed) = (Len(conflicts') = Len(conflicts) + 1)
          /\ Len(conflicts') > Len(conflicts) =>
               /\ conflicts'[Len(conflicts')].scheduled = scheduled_count
               /\ conflicts'[Len(conflicts')].reason = reason

\* C19: early stop loses nothing: in the engine that attempts all
\* sessions_needed iterations, an iteration that fails changes neither the
\* grid nor the unit's history, and once an iteration of a unit has failed
\* every further iteration of that unit fails too, with the same diagnostic; so
\* the grid, the scheduled count and the diagnostic reported for the unit are
\* those at its first failure, which is what the engine with the break reports.
C19_EarlyStop == [][C19_Step]_vars

\* a unit placed one session, then failed twice: the second failure is the
\* iteration the break leaves out
C19_Witness ==
  /\ pc \in {"group_end", "solo_end"}
  /\ round = 3
  /\ scheduled_count = 1
  /\ reason = BlockedMsg
  /\ Len(placements) >= 1

\* the groups with more members than a slot admits
Oversized == {i \in DOMAIN groups : Len(groups[i].members) > max_clients_per_slot}

\* what the run shows of an oversized group: nothing booked, and once it is
\* processed one conflict entry with scheduled = 0 and the diagnostic
Unbooked(i) ==
  LET u == <<"group", i>>
  IN /\ PlacedBy("group", i) = {}
     /\ (pc \in {"group_loop", "group_end"} /\ unit = i) => scheduled_count = 0
     /\ NamesDistinct => \A n \in UnitNames(u) : CellsHolding(n) = {}
     /\ Finished(u) =>
          /\ Cardinality(ConflictsOf("group", i)) = 1
          /\ \A k \in ConflictsOf("group", i) :
               /\ conflicts[k].scheduled = 0
               /\ conflicts[k].needed = Lead("group", i).sessions_needed
               /\ conflicts[k].reason =
                    IF UsableWindows(u) # {} THEN BlockedMsg ELSE NoBlockMsg
          /\ NamesDistinct =>
               \A n \in UnitNames(u) :
                 /\ n \in DOMAIN summary
                 /\ summary[n].scheduled = 0
                 /\ summary[n].reason =
                      IF UsableWindows(u) # {} THEN BlockedMsg ELSE NoBlockMsg

\* C20 as stated: every group with more members than max_clients_per_slot is
\* never booked and ends with scheduled = 0 and a conflict entry that carries
\* the contention diagnostic if its intersected availability holds a full
\* block and the structural one otherwise.
C20_AsStated == Started => \A i \in Oversized : Unbooked(i)

\* one step of the run, seen from the oversized groups
C20_Step ==
  /\ Started =>
       \A i \in Oversized : Lead("group", i).sessions_needed > 0 => Unbooked(i)
  /\ \A i \in Oversized' : Lead("group", i)'.sessions_needed > 0 => Unbooked(i)'
  /\ (pc \in {"group_loop", "group_end"} /\ unit \in Oversized) =>
       /\ timetable' = timetable
       /\ placements' = placements
  /\ \A i \in Oversized :
       Lead("group", i).sessions_needed <= 0 =>
         /\ PlacedBy("group", i)' = {}
         /\ ConflictsOf("group", i)' = {}

\* C20: a group that needs at least one session and has more members than the
\* effective max_clients_per_slot is never booked: no step of its loop
\* changes the grid, and it ends with scheduled = 0 and one conflict entry that
\* carries the contention diagnostic if its intersected availability holds a
\* full block and the structural one otherwise; an oversized group that needs
\* no session is skipped without a conflict entry.
C20_OversizedGroup == [][C20_Step]_vars

\* a group of two with room for one per slot ends with the contention
\* conflict and no booking, and the solo client after it is booked
C20_Witness ==
  /\ Done
  /\ NamesDistinct
  /\ max_clients_per_slot = 1
  /\ Len(groups) = 1
  /\ Len(groups[1].members) = 2
  /\ Lead("group", 1).sessions_needed = 2
  /\ \E k \in ConflictsOf("group", 1) :
       conflicts[k].reason = BlockedMsg /\ conflicts[k].scheduled = 0
  /\ \A n \in UnitNames(<<"group", 1>>) : CellsHolding(n) = {}
  /\ PlacedBy("solo", 1) # {}

====
